---- MODULE Spec2Model ----
(***************************************************************************)
(* Model of streamcorpus_opensextant.tagger: the OpenSextantTagger stage   *)
(* (process_item, make_tagging, make_sentences) and, for the selector      *)
(* builder that the tests call but tagger.py does not define,              *)
(* get_selectors.                                                          *)
(*                                                                         *)
(* One stream item si is processed.  A token stream is the flattened list  *)
(* of the tokens of si.body.sentences[tokenizer]; a span is one entry of   *)
(* the remote response's annoList.                                         *)
(***************************************************************************)
EXTENDS Integers, Sequences, FiniteSets, TLC

\* ---- bounds of the model ----
MaxLen == 2        \* length of a non-empty clean_visible; offsets are 0..MaxLen
MaxTokens == 2     \* tokens in the token stream
MaxSpans == 1      \* entries of annoList seen by process_item
MaxSelSpans == 2   \* entries of annoList handed to get_selectors

\* ---- names of the program ----
tagger_id == "opensextant"
tokenizer_id == "nltk_tokenizer"
None == "None"
EntityTypes == {"PER", "LOC"}
\* geocoord of a place, <<latitude, longitude>>; <<>> when the span has none
Geometries == {<<48, 2>>}
NoGeometry == <<>>
\* si.body.clean_visible: None, the empty string, or a text of MaxLen characters
CleanVisibles == {None, "", "text"}

VARIABLES
    si_body,        \* si.body is present
    clean_visible,  \* si.body.clean_visible, one of CleanVisibles
    sentences,      \* si.body.sentences: tagger id -> token list
    taggings,       \* si.body.taggings: tagger id -> Tagging
    selectors,      \* si.body.selectors: tagger id -> selector list
    config,         \* the stage's configuration toggles
    annoList,       \* the spans the remote service computes for this text
    content,        \* response.content of the call in progress
    result,         \* json.loads(response.content)
    pc,             \* position of the call to process_item
    exc,            \* the exception that left process_item, if any
    posted,         \* a request was sent during the current call
    before,         \* the tagger-keyed fields of si.body at the start of the call
    ran,            \* how often make_sentences has run on this item
    first_types,    \* the tokens' entity types after the first run
    got_selectors   \* the value returned by get_selectors

vars == <<si_body, clean_visible, sentences, taggings, selectors, config,
          annoList, content, result, pc, exc, posted, before, ran,
          first_types, got_selectors>>

\* ---- data ----
Offsets == 0..MaxLen

Token(s, e, t) == [start |-> s, end |-> e, entity_type |-> t]

\* The tokenizer leaves entity_type unset; tokens are ordered by offset and
\* do not overlap each other.
RawTokens == {Token(s, e, None) : <<s, e>> \in {p \in Offsets \X Offsets : p[1] < p[2]}}

TokenStreams ==
    {ts \in UNION {[1..n -> RawTokens] : n \in 0..MaxTokens} :
        \A i \in 1..(Len(ts) - 1) : ts[i].end <= ts[i + 1].start}

\* A span of the response: start <= end (a zero-length span is possible),
\* a kind, and geometry or None.
Spans ==
    {[start |-> p[1], end |-> p[2], kind |-> k, geometry |-> g] :
        p \in {q \in Offsets \X Offsets : q[1] <= q[2]},
        k \in EntityTypes, g \in Geometries \cup {NoGeometry}}

SpanLists(n) == UNION {[1..m -> Spans] : m \in 0..n}

Configs == [annotate_sentences : BOOLEAN, add_geo_selectors : BOOLEAN]

Empty == [k \in {} |-> None]

\* ---- process_item ----

\* The guard with the clean_visible test left out.
HasText_body_only == si_body

\* `if si.body and si.body.clean_visible:` - None and '' are both falsy.
HasText == si_body /\ clean_visible # None /\ clean_visible # ""

Tokenized == tokenizer_id \in DOMAIN sentences

\* The item's token stream: the tagger's own list when one was attached,
\* else the tokenizer's.
Tokens ==
    IF tagger_id \in DOMAIN sentences THEN sentences[tagger_id]
    ELSE IF Tokenized THEN sentences[tokenizer_id]
    ELSE <<>>

Types(ts) == [i \in 1..Len(ts) |-> ts[i].entity_type]

Attached == <<taggings, sentences, selectors>>

Init ==
    /\ si_body \in BOOLEAN
    /\ clean_visible \in CleanVisibles
    /\ (~si_body => clean_visible = None)
    /\ \/ sentences = Empty
       \/ /\ si_body /\ clean_visible # None
          /\ \E ts \in TokenStreams :
                /\ (clean_visible = "" => ts = <<>>)
                /\ sentences = (tokenizer_id :> ts)
    /\ taggings = Empty
    /\ selectors = Empty
    /\ config \in Configs
    /\ IF HasText THEN annoList \in SpanLists(MaxSpans) ELSE annoList = <<>>
    /\ content = None
    /\ result = <<>>
    /\ pc = "idle"
    /\ exc = None
    /\ posted = FALSE
    /\ before = Attached
    /\ ran = "never"
    /\ first_types = <<>>
    /\ got_selectors = <<>>

\* process_item, line 145: the guard; without text the item is returned.
process_item ==
    /\ pc = "idle"
    /\ before' = Attached
    /\ IF HasText
       THEN /\ posted' = TRUE
            /\ pc' = "post"
       ELSE /\ posted' = FALSE
            /\ pc' = "returned"
    /\ exc' = None
    /\ UNCHANGED <<si_body, clean_visible, sentences, taggings, selectors,
                   config, annoList, content, result, ran, first_types,
                   got_selectors>>

\* session.post raises (connection error, timeout after 10 s, TLS): nothing
\* in process_item catches it.
session_post_raises ==
    /\ pc = "post"
    /\ pc' = "raised"
    /\ exc' = "RequestException"
    /\ UNCHANGED <<si_body, clean_visible, sentences, taggings, selectors,
                   config, annoList, content, result, posted, before, ran,
                   first_types, got_selectors>>

\* session.post returns a response; its content is the annotations, JSON of
\* another shape, or bytes that are not JSON.
session_post_returns ==
    /\ pc = "post"
    /\ \E c \in {"annotations", "schema_violation", "unparseable"} : content' = c
    /\ pc' = "responded"
    /\ UNCHANGED <<si_body, clean_visible, sentences, taggings, selectors,
                   config, annoList, result, exc, posted, before, ran,
                   first_types, got_selectors>>

\* result = json.loads(response.content): ValueError on bytes that are not
\* JSON; any JSON value is accepted.
json_loads ==
    /\ pc = "responded"
    /\ IF content = "unparseable"
       THEN /\ pc' = "raised"
            /\ exc' = "ValueError"
            /\ UNCHANGED result
       ELSE /\ pc' = "parsed"
            /\ result' = IF content = "annotations" THEN annoList ELSE <<>>
            /\ UNCHANGED exc
    /\ UNCHANGED <<si_body, clean_visible, sentences, taggings, selectors,
                   config, annoList, content, posted, before, ran,
                   first_types, got_selectors>>

\* si.body.taggings[self.tagger_id] = make_tagging(result); make_tagging
\* returns an empty Tagging().
make_tagging ==
    /\ pc = "parsed"
    /\ taggings' = (tagger_id :> "Tagging()") @@ taggings
    /\ pc' = "tagged"
    /\ UNCHANGED <<si_body, clean_visible, sentences, selectors, config,
                   annoList, content, result, exc, posted, before, ran,
                   first_types, got_selectors>>

\* Half-open ranges [t.start, t.end) and [s.start, s.end) share a character.
Max(a, b) == IF a >= b THEN a ELSE b
Min(a, b) == IF a <= b THEN a ELSE b
Overlap(t, s) == Max(t.start, s.start) < Min(t.end, s.end)

\* A make_sentences that undoes the tagging when it fails.
make_sentences_rollback ==
    /\ pc = "tagged"
    /\ pc' = "raised"
    /\ exc' = "SystemExit"
    /\ taggings' = before[1]
    /\ ran' = IF ran = "never" THEN "once" ELSE "again"
    /\ first_types' = IF ran = "never" THEN Types(Tokens) ELSE first_types
    /\ UNCHANGED <<si_body, clean_visible, sentences, selectors,
                   config, annoList, content, result, posted, before,
                   got_selectors>>

\* A make_sentences that stamps the tokenizer's tokens before it exits: an
\* untyped token under a span takes the span's kind, a typed one is cleared.
Restamp(ts, spans) ==
    [i \in 1..Len(ts) |->
        IF \E j \in 1..Len(spans) : Overlap(ts[i], spans[j])
        THEN LET j == CHOOSE k \in 1..Len(spans) : Overlap(ts[i], spans[k])
             IN  Token(ts[i].start, ts[i].end,
                       IF ts[i].entity_type = None THEN spans[j].kind ELSE None)
        ELSE ts[i]]

make_sentences_restamp ==
    /\ pc = "tagged"
    /\ pc' = "raised"
    /\ exc' = "SystemExit"
    /\ sentences' = IF Tokenized
                    THEN (tokenizer_id :> Restamp(sentences[tokenizer_id], result))
                    ELSE sentences
    /\ ran' = IF ran = "never" THEN "once" ELSE "again"
    /\ first_types' = IF ran = "never" THEN Types(Tokens') ELSE first_types
    /\ UNCHANGED <<si_body, clean_visible, taggings, selectors,
                   config, annoList, content, result, posted, before,
                   got_selectors>>

\* make_sentences(result): logs the result and calls sys.exit(), so
\* SystemExit leaves process_item and the assignment to
\* si.body.sentences[self.tagger_id] never happens.
make_sentences ==
    /\ pc = "tagged"
    /\ pc' = "raised"
    /\ exc' = "SystemExit"
    /\ ran' = IF ran = "never" THEN "once" ELSE "again"
    /\ first_types' = IF ran = "never" THEN Types(Tokens) ELSE first_types
    /\ UNCHANGED <<si_body, clean_visible, sentences, taggings, selectors,
                   config, annoList, content, result, posted, before,
                   got_selectors>>

\* The caller (the test runner) survives the end of the call and hands the
\* same item to process_item again.
caller_continues ==
    /\ pc \in {"returned", "raised"}
    /\ pc' = "idle"
    /\ exc' = None
    /\ posted' = FALSE
    /\ content' = None
    /\ result' = <<>>
    /\ UNCHANGED <<si_body, clean_visible, sentences, taggings, selectors,
                   config, annoList, before, ran, first_types, got_selectors>>

Next ==
    \/ process_item
    \/ session_post_raises
    \/ session_post_returns
    \/ json_loads
    \/ make_tagging
    \/ make_sentences
    \/ caller_continues

Spec == Init /\ [][Next]_vars

\* ---- get_selectors ----

\* One selector of si.body.selectors[tagger_id].
Selector(s) ==
    [selector_type |-> "GEOJSON",
     raw_selector |-> s.geometry,
     canonical_selector |-> [coordinates |-> <<s.geometry[2], s.geometry[1]>>],
     offsets |-> [first |-> s.start, length |-> s.end - s.start]]

RECURSIVE get_selectors_all(_)
\* A selector builder that does not look at the geometry.
get_selectors_all(spans) ==
    IF spans = <<>> THEN <<>>
    ELSE <<[selector_type |-> "GEOJSON",
            raw_selector |-> Head(spans).geometry,
            canonical_selector |-> [coordinates |-> Head(spans).geometry],
            offsets |-> [first |-> Head(spans).start,
                         length |-> Head(spans).end - Head(spans).start]]>>
         \o get_selectors_all(Tail(spans))

RECURSIVE get_selectors(_)
\* One selector for every span that carries geometry, in annoList order;
\* spans without geometry are skipped.
get_selectors(spans) ==
    IF spans = <<>> THEN <<>>
    ELSE IF Head(spans).geometry # NoGeometry
         THEN <<Selector(Head(spans))>> \o get_selectors(Tail(spans))
         ELSE get_selectors(Tail(spans))

\* The selector builder is applied to the decoded spans of one response.
SelInit ==
    /\ si_body = TRUE
    /\ clean_visible = "text"
    /\ sentences = Empty
    /\ taggings = Empty
    /\ selectors = Empty
    /\ config = [annotate_sentences |-> FALSE, add_geo_selectors |-> TRUE]
    /\ annoList \in SpanLists(MaxSelSpans)
    /\ content = "annotations"
    /\ result = annoList
    /\ pc = "results"
    /\ exc = None
    /\ posted = TRUE
    /\ before = Attached
    /\ ran = "never"
    /\ first_types = <<>>
    /\ got_selectors = <<>>

\* selectors = ost.get_selectors(results)
test_get_selectors ==
    /\ pc = "results"
    /\ got_selectors' = get_selectors(result)
    /\ pc' = "selected"
    /\ UNCHANGED <<si_body, clean_visible, sentences, taggings, selectors,
                   config, annoList, content, result, exc, posted, before,
                   ran, first_types>>

SelNext == test_get_selectors

SpecSel == SelInit /\ [][SelNext]_vars

\* ---- properties ----

\* The call has ended, by return or by an exception leaving process_item.
CallEnded == pc \in {"returned", "raised"}

\* make_sentences has run in this call: the call ended after it.
Reconciled ==
    \/ pc = "returned" /\ HasText
    \/ pc = "raised" /\ exc = "SystemExit"

\* The response of this call was the service's annotations.
Annotated == content = "annotations"

\* Spans in ascending start, then ascending end.
SortedSpans(spans) ==
    \A i \in 1..(Len(spans) - 1) :
        \/ spans[i].start < spans[i + 1].start
        \/ spans[i].start = spans[i + 1].start /\ spans[i].end <= spans[i + 1].end

RECURSIVE FirstMatch(_, _)
\* Reference: the kind of the first span, in list order, that overlaps t.
FirstMatch(t, spans) ==
    IF spans = <<>> THEN None
    ELSE IF Overlap(t, Head(spans)) THEN Head(spans).kind
         ELSE FirstMatch(t, Tail(spans))

GeoIdx(spans) == {i \in 1..Len(spans) : spans[i].geometry # NoGeometry}

\* C1 - coverage completeness: once the reconciler has run on the token
\* stream and the spans of the response, every token that overlaps a span
\* carries that span's kind.
C1_CoverageCompleteness ==
    (Reconciled /\ Annotated) =>
        \A i \in 1..Len(Tokens) : \A j \in 1..Len(result) :
            Overlap(Tokens[i], result[j]) =>
                Tokens[i].entity_type = result[j].kind

\* C2 - no false positives: once the reconciler has run, every token that
\* overlaps no span has no entity type, and the run raised nothing.
C2_NoFalsePositives ==
    (Reconciled /\ Annotated) =>
        /\ exc = None
        /\ \A i \in 1..Len(Tokens) :
              (\A j \in 1..Len(result) : ~Overlap(Tokens[i], result[j])) =>
                  Tokens[i].entity_type = None

\* C3 - process_item never fails the pipeline: whatever the remote call
\* does, the call ends by returning the item; no exception or exit leaves it.
C3_NeverFailsPipeline ==
    CallEnded => (pc = "returned" /\ exc = None)

\* C4 - no-text short-circuit: for an item without body or with an empty or
\* absent clean_visible, a call sends no request, leaves taggings, sentences
\* and selectors as they were, and returns the item without error.
C4_NoTextShortCircuit ==
    (~(si_body /\ clean_visible = "text") /\ pc # "idle") =>
        /\ pc = "returned"
        /\ ~posted
        /\ exc = None
        /\ Attached = before
        /\ tagger_id \notin DOMAIN taggings
        /\ tagger_id \notin DOMAIN sentences
        /\ tagger_id \notin DOMAIN selectors

C4_Witness ==
    pc = "returned" /\ si_body /\ clean_visible = "" /\ Tokenized /\ ~posted

\* C5 - selector necessity: get_selectors returns exactly one selector per
\* span with geometry and none for a span without; each selector's CHARS
\* offset starts at its span's start (>= 0) and has the span's length.
C5_SelectorNecessity ==
    pc = "selected" =>
        /\ Len(got_selectors) = Cardinality(GeoIdx(result))
        /\ \A j \in 1..Len(got_selectors) :
              /\ got_selectors[j].offsets.first >= 0
              /\ \E i \in GeoIdx(result) :
                    /\ got_selectors[j].offsets.first = result[i].start
                    /\ got_selectors[j].offsets.length =
                          result[i].end - result[i].start
        /\ \A f \in Offsets : \A l \in Offsets :
              Cardinality({j \in 1..Len(got_selectors) :
                              /\ got_selectors[j].offsets.first = f
                              /\ got_selectors[j].offsets.length = l})
              = Cardinality({i \in GeoIdx(result) :
                              /\ result[i].start = f
                              /\ result[i].end - result[i].start = l})

C5_Witness ==
    /\ pc = "selected"
    /\ Len(result) = 2
    /\ result[1].geometry = NoGeometry
    /\ result[2].geometry # NoGeometry
    /\ result[2].start > 0
    /\ Len(got_selectors) = 1

\* C6 - independence: with add_geo_selectors enabled, the selector list
\* attached under the tagger id is the full selector set of the response,
\* whether annotate_sentences is enabled or not and whether a token stream
\* exists or not.
C6_Independence ==
    (CallEnded /\ HasText /\ Annotated /\ config.add_geo_selectors) =>
        /\ tagger_id \in DOMAIN selectors
        /\ selectors[tagger_id] = get_selectors(result)

\* C7 - missing prerequisite: with annotate_sentences enabled, text present
\* and no token stream, the call does not fail, attaches no sentence list
\* under the tagger id, and still attaches the selectors add_geo_selectors
\* asks for.
C7_MissingPrerequisite ==
    (CallEnded /\ HasText /\ Annotated /\ ~Tokenized
        /\ config.annotate_sentences) =>
        /\ pc = "returned"
        /\ tagger_id \notin DOMAIN sentences
        /\ (config.add_geo_selectors => tagger_id \in DOMAIN selectors)

C10_FirstMatchMerge ==
    (Reconciled /\ Annotated /\ SortedSpans(result)) =>
        \A i \in 1..Len(Tokens) :
            Tokens[i].entity_type = FirstMatch(Tokens[i], result)

====
